---------------------------- MODULE Spec2Model ----------------------------
(***************************************************************************)
(* A model of ResearchAgent (src/research_agent.py): the tool registry,    *)
(* the conversation history and the plan/act loop of research().           *)
(*                                                                         *)
(* One research call is split at its blocking calls, the model call and   *)
(* each tool call: StartResearch runs up to the first model call, a Round* *)
(* action runs from the return (or failure) of the model call up to the    *)
(* first tool call of the round or, when the round calls no tool, to the   *)
(* next model call; ToolReturns and ToolRaises run from the end of a tool  *)
(* call up to the next blocking call; Finalize is the code after the loop. *)
(*                                                                         *)
(* The text of the language model is not modelled character by character: *)
(* a round is told apart by what self._extract_json and json.loads make of *)
(* it (see NoPlan and Plans).  One behaviour is one research call on a     *)
(* newly built agent; add_tool, remove_tool and clear_history may be       *)
(* called at any time, also while research is waiting in a blocking call.  *)
(*                                                                         *)
(* JSON values the language model may put in a plan are encoded as         *)
(* follows.  A string value is a TLA+ string; a list of strings is a       *)
(* sequence of strings.  The reserved strings below (they start with '#',  *)
(* no tool name, summary or source of the model starts with it) stand for  *)
(* an absent key and for JSON values of other types.                       *)
(***************************************************************************)
EXTENDS Integers, Sequences, FiniteSets, TLC

(***************************************************************************)
(* Bounds of the model.                                                    *)
(***************************************************************************)
MaxIter == 3        \* largest max_iterations a caller passes
MaxReq == 2         \* longest "tools_used" list the language model returns
MaxStored == 4      \* most records in the history when a further call is made

(***************************************************************************)
(* Program constants.                                                      *)
(***************************************************************************)
MinToolsToFinish == 2       \* research(): len(state["tools_used"]) >= 2
ContextWindow == 3          \* research(): self.conversation_history[-3:]
Sentinel == "Unable to complete research"

(***************************************************************************)
(* Value universes.                                                        *)
(***************************************************************************)
BuiltinTools == {"search_tool", "wiki_tool", "save_tool"}
\* names the language model may put in a request
RequestNames == {"search_tool", "wiki_tool"}
\* names a caller passes to add_tool / remove_tool
MutableNames == {"wiki_tool"}
\* the capability a caller passes to add_tool (the built-in capabilities are
\* named after their functions)
AddedCapabilities == {"custom_fn"}
Queries == {"q1", "q2"}

Missing == "#missing"       \* the key is absent from the plan
JNull == "#null"            \* JSON null (Python None): falsy, not a str
JArray == "#array"          \* a non-empty JSON array where a string is expected
JObject == "#object"        \* a non-empty JSON object where a list is expected

\* values of plan["summary"]
PlanSummaries == {Missing, "", "X", "Y", JArray}
\* values of plan["sources"]
PlanSources == {<<Missing>>, <<>>, <<"a">>, <<JObject>>}

RECURSIVE SeqsUpTo(_, _)
SeqsUpTo(S, n) ==
    IF n = 0 THEN {<<>>}
    ELSE LET shorter == SeqsUpTo(S, n - 1)
         IN  shorter \cup {Append(s, x) : s \in shorter, x \in S}

\* values of plan["tools_used"]
PlanTools == SeqsUpTo(RequestNames, MaxReq) \cup {<<Missing>>, <<JNull>>}

\* what the model call of one round produces:
\*   "fail"    self.llm.invoke raises
\*   "noparse" json.loads raises on the extracted text
\*   "nondict" json.loads returns a value that is not an object (plan.get raises)
\*   "plan"    json.loads returns an object
NoPlan(kind) ==
    [kind |-> kind, summary |-> Missing, sources |-> <<Missing>>, tools_used |-> <<Missing>>]
Plans ==
    [kind : {"plan"}, summary : PlanSummaries, sources : PlanSources, tools_used : PlanTools]

\* what one call of tool.run(query) does:
\*   "ok"    returns its findings
\*   "err"   returns an error text (the built-in tools catch their own exceptions)
\*   "raise" raises
Outcomes == {"ok", "err", "raise"}
ResultText(outcome) == IF outcome = "ok" THEN "result" ELSE "error text"

SetOf(seq) == {seq[i] : i \in DOMAIN seq}
NoTool == "#none"           \* no tool is being run

\* Python dicts: a function whose domain is the set of keys
EmptyDict == [k \in {} |-> ""]
Keys(d) == DOMAIN d
\* d[k] = v
DictSet(d, k, v) == [n \in DOMAIN d \cup {k} |-> IF n = k THEN v ELSE d[n]]
\* del d[k]
DictDel(d, k) == [n \in DOMAIN d \ {k} |-> d[n]]

VARIABLES
    tool_map,               \* self.tool_map: name -> capability
    conversation_history,   \* self.conversation_history
    pc,                     \* where research() is: "idle" (not called), "loop" (at the
                            \* for statement / in self.llm.invoke), "tool" (in a
                            \* tool's run), "returned", "raised"
    query,                  \* research(): query
    max_iterations,         \* research(): max_iterations
    iteration,              \* research(): the loop variable (0 before the first pass)
    stopped,                \* research(): the break of the loop was executed
    state,                  \* research(): state
    context,                \* research(): the records read into context
    running,                \* research(): tool_name while its run is executing
    pending,                \* research(): the part of new_tools after tool_name
    response,               \* research(): response
    last_kind,              \* history: what the model call of the last round gave:
                            \* "fail", "noparse", "nondict", "plan" (an object that
                            \* requests tools), "plan_no_tools" (one that requests none)
    llm_calls,              \* history: number of self.llm.invoke calls of this call
    runs,                   \* history: name -> number of run calls of this call
    run_args                \* history: the arguments run was called with

vars == <<tool_map, conversation_history, pc, query, max_iterations, iteration, stopped,
          state, context, running, pending, response, last_kind, llm_calls, runs, run_args>>

agent_vars == <<tool_map, conversation_history>>
call_vars == <<query, max_iterations, context>>
hist_vars == <<last_kind, llm_calls, runs, run_args>>

-----------------------------------------------------------------------------
(***************************************************************************)
(* Python truthiness and the type checks of ResearchResponse.              *)
(***************************************************************************)
\* bool(state["summary"])
TruthySummary(s) == s \notin {"", JNull}
\* bool(state["sources"])
TruthySources(s) == s # <<>> /\ s # <<JNull>>
\* bool(new_tools)
TruthyTools(t) == t # <<>> /\ t # <<JNull>>
\* isinstance(v, str)
IsStr(s) == s \notin {JNull, JArray}
\* v is a list[str]
IsStrList(s) == s # <<JNull>> /\ s # <<JObject>>
\* v can be iterated by a for statement
Iterable(t) == t # <<JNull>>

\* mutant of PlanGet: an empty value of the plan does not replace the default
PlanGet_KeepNonEmpty(value, default) ==
    IF value = "#missing" \/ value = "" THEN default ELSE value

\* plan.get(key, default)
PlanGet(value, default) == IF value = Missing THEN default ELSE value
PlanGetSeq(value, default) == IF value = <<Missing>> THEN default ELSE value

InitialState(q) ==
    [tools_used |-> <<>>, tool_results |-> EmptyDict, topic |-> q, summary |-> "", sources |-> <<>>]

NoResponse == [topic |-> "#none", summary |-> "#none", sources |-> <<>>, tools_used |-> <<>>]

-----------------------------------------------------------------------------
(***************************************************************************)
(* The loop body of research().                                            *)
(***************************************************************************)
\* mutant of LoopHasNext: range(1, max_iterations + 2)
LoopHasNext_OneMore(it, maxit) == it <= maxit

\* for iteration in range(1, max_iterations + 1): another pass follows `it`
LoopHasNext(it, maxit) == it < maxit

\* state["summary"] = plan.get("summary", state["summary"])
\* state["sources"] = plan.get("sources", state["sources"])
ApplyPlan(st, p) ==
    [st EXCEPT !.summary = PlanGet(p.summary, st.summary),
               !.sources = PlanGetSeq(p.sources, st.sources)]

\* new_tools = plan.get("tools_used", [])
NewTools(p) == PlanGetSeq(p.tools_used, <<>>)

\* mutant of ShouldBreak: the number of tools used is not looked at
ShouldBreak_AnyToolCount(new_tools, st) ==
    ~(new_tools # <<>> /\ new_tools # <<"#null">>) /\ st.summary \notin {"", "#null"}

\* mutant of ShouldBreak: one tool used is enough to stop
ShouldBreak_OneToolEnough(new_tools, st) ==
    /\ ~(new_tools # <<>> /\ new_tools # <<"#null">>)
    /\ st.summary \notin {"", "#null"}
    /\ Len(st.tools_used) >= 1

\* mutant of ShouldBreak: the request of the round is not looked at
ShouldBreak_IgnoresRequest(new_tools, st) ==
    st.summary \notin {"", "#null"} /\ Len(st.tools_used) >= 2

\* if not new_tools and state["summary"]: if len(state["tools_used"]) >= 2: break
ShouldBreak(new_tools, st) ==
    /\ ~TruthyTools(new_tools)
    /\ TruthySummary(st.summary)
    /\ Len(st.tools_used) >= MinToolsToFinish

\* mutant of CanInvoke: a tool that has a result is run again
CanInvoke_AgainWhenUsed(name, tmap, results) == name \in DOMAIN tmap

\* mutant of CanInvoke: a name that is not registered is run
CanInvoke_Unregistered(name, tmap, results) == name \notin DOMAIN results

\* if tool_name in self.tool_map and tool_name not in state["tool_results"]
CanInvoke(name, tmap, results) == name \in Keys(tmap) /\ name \notin Keys(results)

\* mutant of RecordToolResult: the name is not appended to tools_used
RecordToolResult_NoAppend(st, name, result) ==
    [st EXCEPT !.tool_results = [n \in DOMAIN st.tool_results \cup {name} |->
                                    IF n = name THEN result ELSE st.tool_results[n]]]

\* mutant of RecordToolResult: the name is put in front of tools_used
RecordToolResult_Prepend(st, name, result) ==
    [st EXCEPT !.tool_results = [n \in DOMAIN st.tool_results \cup {name} |->
                                    IF n = name THEN result ELSE st.tool_results[n]],
               !.tools_used = <<name>> \o st.tools_used]

\* state["tool_results"][tool_name] = result; state["tools_used"].append(tool_name)
RecordToolResult(st, name, result) ==
    [st EXCEPT !.tool_results = DictSet(st.tool_results, name, result),
               !.tools_used = Append(st.tools_used, name)]

\* for tool_name in names: the first position from i on whose tool is run,
\* Len(names) + 1 when the for statement ends without running one
RECURSIVE NextInvocable(_, _, _, _)
NextInvocable(names, i, tmap, results) ==
    IF i > Len(names) THEN i
    ELSE IF CanInvoke(names[i], tmap, results) THEN i
    ELSE NextInvocable(names, i + 1, tmap, results)

\* the for statement goes through `names` up to the first tool it runs
Advance(names, tmap, results) ==
    LET j == NextInvocable(names, 1, tmap, results)
    IN  IF j > Len(names)
        THEN [running |-> NoTool, pending |-> <<>>]
        ELSE [running |-> names[j], pending |-> SubSeq(names, j + 1, Len(names))]

\* the try block from the return of json.loads with the object p up to the first
\* tool call: the session state, whether the break was executed, the tool that
\* is run (NoTool: the pass is over) and the names left in new_tools
PlanRound(st, p, tmap) ==
    LET s1 == ApplyPlan(st, p)
        new_tools == NewTools(p)
    IN  IF ShouldBreak(new_tools, s1)
        THEN [state |-> s1, break |-> TRUE, running |-> NoTool, pending |-> <<>>]
        ELSE IF ~Iterable(new_tools)        \* TypeError, except Exception: continue
        THEN [state |-> s1, break |-> FALSE, running |-> NoTool, pending |-> <<>>]
        ELSE LET a == Advance(new_tools, tmap, s1.tool_results)
             IN  [state |-> s1, break |-> FALSE, running |-> a.running, pending |-> a.pending]

-----------------------------------------------------------------------------
(***************************************************************************)
(* The code after the loop.                                                *)
(***************************************************************************)
\* mutant of SummaryOrSentinel: the sentinel stands in only for null
SummaryOrSentinel_NotForEmpty(summary) ==
    IF summary = "#null" THEN "Unable to complete research" ELSE summary

\* summary=state["summary"] or "Unable to complete research"
SummaryOrSentinel(summary) == IF TruthySummary(summary) THEN summary ELSE Sentinel
\* sources=state["sources"] or []
SourcesOrEmpty(sources) == IF TruthySources(sources) THEN sources ELSE <<>>

\* ResearchResponse(topic=..., summary=..., sources=..., tools_used=...)
BuildResponse(st) ==
    [topic |-> st.topic, summary |-> SummaryOrSentinel(st.summary),
     sources |-> SourcesOrEmpty(st.sources), tools_used |-> st.tools_used]

\* pydantic accepts the fields of ResearchResponse: summary: str, sources: list[str]
Validates(r) == IsStr(r.summary) /\ IsStrList(r.sources)

\* {"query": query, "summary": response.summary, "sources": response.sources}
HistoryRecord(q, r) == [query |-> q, summary |-> r.summary, sources |-> r.sources]

\* mutant of Recent: self.conversation_history[:3], the oldest records
Recent_Oldest(history, n) ==
    IF Len(history) <= n THEN history ELSE SubSeq(history, 1, n)

\* self.conversation_history[-3:]
Recent(history, n) ==
    IF Len(history) <= n THEN history
    ELSE SubSeq(history, Len(history) - n + 1, Len(history))

-----------------------------------------------------------------------------
\* ResearchAgent.__init__
Init ==
    /\ tool_map = [n \in BuiltinTools |-> n]
    /\ conversation_history = <<>>
    /\ pc = "idle"
    /\ query = "q1"
    /\ max_iterations = 0
    /\ iteration = 0
    /\ stopped = FALSE
    /\ state = InitialState("q1")
    /\ context = <<>>
    /\ running = NoTool
    /\ pending = <<>>
    /\ response = NoResponse
    /\ last_kind = "none"
    /\ llm_calls = 0
    /\ runs = [n \in RequestNames |-> 0]
    /\ run_args = {}

\* research() has returned its response or raised
Exited == pc \in {"returned", "raised"}

\* research(query, max_iterations): up to the for statement
StartResearch(q, m) ==
    /\ pc = "idle"
    /\ pc' = "loop"
    /\ query' = q
    /\ max_iterations' = m
    /\ iteration' = 0
    /\ stopped' = FALSE
    /\ state' = InitialState(q)
    /\ context' = Recent(conversation_history, ContextWindow)
    /\ UNCHANGED <<agent_vars, running, pending, response, hist_vars>>

\* the for statement starts another pass, which calls self.llm.invoke
InLoop == pc = "loop" /\ ~stopped /\ LoopHasNext(iteration, max_iterations)

\* a pass of the loop in which self.llm.invoke raises
RoundModelFails ==
    /\ InLoop
    /\ iteration' = iteration + 1
    /\ llm_calls' = llm_calls + 1
    /\ last_kind' = "fail"
    /\ UNCHANGED <<agent_vars, call_vars, pc, stopped, state, running, pending,
                   response, runs, run_args>>

\* mutant of RoundParseFails: the draft summary is dropped when parsing fails
RoundParseFails_DropsSummary(kind) ==
    /\ pc = "loop" /\ ~stopped /\ iteration < max_iterations
    /\ iteration' = iteration + 1
    /\ llm_calls' = llm_calls + 1
    /\ last_kind' = kind
    /\ state' = [state EXCEPT !.summary = ""]
    /\ UNCHANGED <<agent_vars, call_vars, pc, stopped, running, pending,
                   response, runs, run_args>>

\* a pass of the loop in which json.loads raises ("noparse"), or returns a value
\* that is no object, so that plan.get raises ("nondict")
RoundParseFails(kind) ==
    /\ InLoop
    /\ iteration' = iteration + 1
    /\ llm_calls' = llm_calls + 1
    /\ last_kind' = kind
    /\ UNCHANGED <<agent_vars, call_vars, pc, stopped, state, running, pending,
                   response, runs, run_args>>

\* a pass of the loop in which json.loads returns the object p
RoundPlan(p) ==
    /\ InLoop
    /\ iteration' = iteration + 1
    /\ llm_calls' = llm_calls + 1
    /\ last_kind' = IF TruthyTools(NewTools(p)) THEN "plan" ELSE "plan_no_tools"
    /\ \E r \in {PlanRound(state, p, tool_map)} :
           /\ state' = r.state
           /\ stopped' = r.break
           /\ running' = r.running
           /\ pending' = r.pending
           /\ pc' = IF r.running = NoTool THEN "loop" ELSE "tool"
           /\ runs' = IF r.running = NoTool THEN runs
                      ELSE [runs EXCEPT ![r.running] = @ + 1]
           /\ run_args' = IF r.running = NoTool THEN run_args ELSE run_args \cup {query}
    /\ UNCHANGED <<agent_vars, call_vars, response>>

\* self.tool_map[tool_name].run(query) returns: its result is recorded and the
\* for statement goes on to the next tool it runs, or ends the pass
ToolReturns(outcome) ==
    /\ pc = "tool"
    /\ LET s1 == RecordToolResult(state, running, ResultText(outcome))
           a == Advance(pending, tool_map, s1.tool_results)
       IN  /\ state' = s1
           /\ running' = a.running
           /\ pending' = a.pending
           /\ pc' = IF a.running = NoTool THEN "loop" ELSE "tool"
           /\ runs' = IF a.running = NoTool THEN runs
                      ELSE [runs EXCEPT ![a.running] = @ + 1]
           /\ run_args' = IF a.running = NoTool THEN run_args ELSE run_args \cup {query}
    /\ UNCHANGED <<agent_vars, call_vars, iteration, stopped, response, last_kind, llm_calls>>

\* self.tool_map[tool_name].run(query) raises: except Exception: continue
ToolRaises ==
    /\ pc = "tool"
    /\ running' = NoTool
    /\ pending' = <<>>
    /\ pc' = "loop"
    /\ UNCHANGED <<agent_vars, call_vars, iteration, stopped, state, response, hist_vars>>

\* the code after the loop: build the response, save it, return it
Finalize ==
    /\ pc = "loop"
    /\ stopped \/ ~LoopHasNext(iteration, max_iterations)
    /\ LET r == BuildResponse(state)
       IN  IF Validates(r)
           THEN /\ response' = r
                /\ conversation_history' = Append(conversation_history, HistoryRecord(query, r))
                /\ pc' = "returned"
           ELSE /\ response' = NoResponse       \* pydantic.ValidationError
                /\ conversation_history' = conversation_history
                /\ pc' = "raised"
    /\ UNCHANGED <<tool_map, call_vars, iteration, stopped, state, running, pending, hist_vars>>

\* add_tool(name, tool_func)
AddTool(name, capability) ==
    /\ tool_map' = DictSet(tool_map, name, capability)
    /\ UNCHANGED <<conversation_history, call_vars, pc, iteration, stopped, state,
                   running, pending, response, hist_vars>>

\* mutant of RemoveTool: the tool is also taken out of the running session
RemoveTool_Retroactive(name) ==
    /\ tool_map' = [n \in DOMAIN tool_map \ {name} |-> tool_map[n]]
    /\ state' = [state EXCEPT
                     !.tool_results = [n \in DOMAIN state.tool_results \ {name} |->
                                          state.tool_results[n]],
                     !.tools_used = SelectSeq(state.tools_used, LAMBDA n : n # name)]
    /\ UNCHANGED <<conversation_history, call_vars, pc, iteration, stopped,
                   running, pending, response, hist_vars>>

\* mutant of RemoveTool: del self.tool_map[name] without the membership test,
\* which raises KeyError when the name is absent
RemoveTool_KeyError(name) ==
    /\ name \in DOMAIN tool_map
    /\ tool_map' = [n \in DOMAIN tool_map \ {name} |-> tool_map[n]]
    /\ UNCHANGED <<conversation_history, call_vars, pc, iteration, stopped, state,
                   running, pending, response, hist_vars>>

\* remove_tool(name)
RemoveTool(name) ==
    /\ tool_map' = IF name \in Keys(tool_map) THEN DictDel(tool_map, name) ELSE tool_map
    /\ UNCHANGED <<conversation_history, call_vars, pc, iteration, stopped, state,
                   running, pending, response, hist_vars>>

\* clear_history()
ClearHistory ==
    /\ conversation_history' = <<>>
    /\ UNCHANGED <<tool_map, call_vars, pc, iteration, stopped, state,
                   running, pending, response, hist_vars>>

Next ==
    \/ \E q \in Queries, m \in 0..MaxIter : StartResearch(q, m)
    \/ RoundModelFails
    \/ \E kind \in {"noparse", "nondict"} : RoundParseFails(kind)
    \/ \E p \in Plans : RoundPlan(p)
    \/ \E outcome \in {"ok", "err"} : ToolReturns(outcome)
    \/ ToolRaises
    \/ Finalize
    \/ \E name \in MutableNames, capability \in AddedCapabilities : AddTool(name, capability)
    \/ \E name \in MutableNames : RemoveTool(name)
    \/ ClearHistory

Spec == Init /\ [][Next]_vars

-----------------------------------------------------------------------------
(***************************************************************************)
(* Several research calls of one agent, one after the other, to follow the *)
(* conversation history from call to call.  The language model is kept     *)
(* small here: it answers with a plan that requests no tool, or fails.     *)
(***************************************************************************)
\* return response (or the exception leaves research): the caller has the
\* agent back and the locals of the call are gone
ReturnToCaller ==
    /\ Exited
    /\ Len(conversation_history) <= MaxStored
    /\ pc' = "idle"
    /\ iteration' = 0
    /\ stopped' = FALSE
    /\ state' = InitialState(query)
    /\ response' = NoResponse
    /\ last_kind' = "none"
    /\ llm_calls' = 0
    /\ UNCHANGED <<agent_vars, call_vars, running, pending, runs, run_args>>

\* the plans of a language model that requests no tool
MemoryPlans ==
    {p \in Plans : p.summary \in {"", "X"} /\ p.sources = <<"a">> /\ p.tools_used = <<>>}

NextMemory ==
    \/ \E q \in Queries, m \in {0, 1} : StartResearch(q, m)
    \/ RoundModelFails
    \/ \E p \in MemoryPlans : RoundPlan(p)
    \/ Finalize
    \/ ReturnToCaller
    \/ ClearHistory

SpecMemory == Init /\ [][NextMemory]_vars

-----------------------------------------------------------------------------
(***************************************************************************)
(* One research call of an agent from whose registry the caller has taken  *)
(* any of the built-in tools before the call, so that the call runs with   *)
(* three, two, one or no tool registered.  The sources of the plans are    *)
(* kept to the empty list here.                                            *)
(***************************************************************************)
\* remove_tool(name), called before research is
RemoveToolBeforeCall(name) == pc = "idle" /\ RemoveTool(name)

\* the plans of a language model that names no sources
RegistryPlans == {p \in Plans : p.summary # "Y" /\ p.sources = <<>>}

NextRegistry ==
    \/ \E name \in BuiltinTools : RemoveToolBeforeCall(name)
    \/ \E q \in Queries, m \in 0..MaxIter : StartResearch(q, m)
    \/ RoundModelFails
    \/ \E p \in RegistryPlans : RoundPlan(p)
    \/ \E outcome \in {"ok", "err"} : ToolReturns(outcome)
    \/ ToolRaises
    \/ Finalize

SpecRegistry == Init /\ [][NextRegistry]_vars

-----------------------------------------------------------------------------
(***************************************************************************)
(* Properties of research().                                               *)
(***************************************************************************)
InResearch == pc # "idle"

\* C1: one research call makes at most max_iterations model calls, the rounds
\* that fail included (every pass of the loop, whatever its outcome, makes one
\* model call and uses up one iteration); once max_iterations rounds are made
\* the loop starts no further round.
C1_RoundsCapped ==
    InResearch =>
        /\ llm_calls <= max_iterations
        /\ llm_calls = iteration
        /\ (llm_calls = max_iterations => ~InLoop)

\* a call that has made all of its 3 rounds, the last one failing, and has
\* left the loop
C1_Witness ==
    /\ Exited
    /\ max_iterations = 3
    /\ llm_calls = 3
    /\ last_kind = "fail"
    /\ ~stopped

\* C2: research always returns a ResearchResult; no failure escapes the call.
C2_AlwaysReturns == pc # "raised"

\* C3: the loop stops in a round if and only if the round parsed a plan that
\* requests no tools, the session summary after applying the plan is non-empty
\* and 2 or more distinct tools have been used; a round that does not stop the
\* loop and runs no tool is followed by the next round if the cap allows.
C3_StopIff ==
    [][ /\ (stopped' /\ ~stopped) <=>
            /\ llm_calls' = llm_calls + 1
            /\ last_kind' = "plan_no_tools"
            /\ state'.summary # ""
            /\ Cardinality(SetOf(state'.tools_used)) >= 2
        /\ (/\ llm_calls' = llm_calls + 1
            /\ last_kind' = "plan_no_tools"
            /\ ~stopped'
            /\ iteration' < max_iterations) => InLoop'
      ]_vars

\* the loop was stopped before the cap, with two tools used
C3_Witness ==
    /\ stopped
    /\ iteration < max_iterations
    /\ Len(state.tools_used) = 2
    /\ state.summary = "X"

\* C4: tools_used never holds a name twice.
C4_NoDuplicates ==
    Len(state.tools_used) = Cardinality(SetOf(state.tools_used))

\* a tool is being run in a round whose request names it twice, after an
\* earlier round of the call has already used another tool
C4_Witness ==
    /\ pc = "tool"
    /\ running \in SetOf(pending)
    /\ Len(state.tools_used) = 1

\* C5: within one research call no tool's run is called more than once.
C5_RunAtMostOnce == \A n \in RequestNames : runs[n] <= 1

\* C6: a tool whose run was called and has ended, by returning or by raising,
\* is recorded in tools_used and in tool_results, and its run was called once.
C6_FailureRecorded ==
    \A n \in RequestNames :
        (runs[n] > 0 /\ ~(pc = "tool" /\ running = n)) =>
            /\ n \in SetOf(state.tools_used)
            /\ n \in Keys(state.tool_results)
            /\ runs[n] = 1

\* C7: the keys of tool_results are the names in tools_used, in every state.
C7_KeysAreToolsUsed == Keys(state.tool_results) = SetOf(state.tools_used)

\* between two rounds, one tool is recorded and the run of another one has raised
C7_Witness ==
    /\ pc = "loop"
    /\ Len(state.tools_used) = 1
    /\ \E n \in RequestNames : runs[n] > 0 /\ n \notin Keys(state.tool_results)

\* C8: a round whose model call fails, or whose model text does not parse to an
\* object, leaves the session state as it was, runs no tool, does not stop the
\* loop, and is followed by the next round if the cap allows.
C8_FailedRoundFrame ==
    [][ (llm_calls' = llm_calls + 1 /\ last_kind' \in {"fail", "noparse", "nondict"}) =>
            /\ state' = state
            /\ runs' = runs
            /\ pc' = "loop"
            /\ ~stopped'
            /\ (iteration' < max_iterations => InLoop')
      ]_vars

\* a round has just failed to parse in a session that holds a summary, sources
\* and a used tool, and another round follows
C8_Witness ==
    /\ last_kind = "noparse"
    /\ InLoop
    /\ state.summary = "X"
    /\ state.sources = <<"a">>
    /\ Len(state.tools_used) = 1

\* the names of a request that are registered, in order
KnownOnly(names, tmap) == SelectSeq(names, LAMBDA n : n \in Keys(tmap))
\* the plan p without the requested names that are not registered
WithoutUnknown(p, tmap) ==
    IF p.tools_used \in {<<Missing>>, <<JNull>>} THEN p
    ELSE [p EXCEPT !.tools_used = KnownOnly(p.tools_used, tmap)]

\* the plan p requests a name that is not registered
RequestsUnknown(p, tmap) == WithoutUnknown(p, tmap) # p

\* what a round does with the plan p, and with p less its unregistered names:
\* the same session state, the same tool run first, the same registered names
\* left to go through
SameToolsAsWithoutUnknown(p) ==
    \A r \in {PlanRound(state, p, tool_map)},
       f \in {PlanRound(state, WithoutUnknown(p, tool_map), tool_map)} :
        /\ r.state = f.state
        /\ r.running = f.running
        /\ KnownOnly(r.pending, tool_map) = f.pending
        /\ r.running \in Keys(tool_map) \cup {NoTool}
\* ... and the same decision to stop the loop
SameStopAsWithoutUnknown(p) ==
    PlanRound(state, p, tool_map).break
        = PlanRound(state, WithoutUnknown(p, tool_map), tool_map).break

\* when the tool that is running returns, the for statement goes on as it would
\* if the unregistered names were not in the rest of the request
SameNextToolAsWithoutUnknown ==
    \A outcome \in {"ok", "err"} :
        \A results \in {RecordToolResult(state, running, ResultText(outcome)).tool_results} :
        \A a \in {Advance(pending, tool_map, results)},
           f \in {Advance(KnownOnly(pending, tool_map), tool_map, results)} :
            /\ a.running = f.running
            /\ KnownOnly(a.pending, tool_map) = f.pending
            /\ a.running \in Keys(tool_map) \cup {NoTool}

\* C9 (as amended): a requested name that is not registered is dropped from the
\* round's tool calls: whatever the plan, the session state and the tools run,
\* in order, are those of the same plan without the unregistered names, and no
\* unregistered name is run or recorded.
C9_UnknownDropped ==
    /\ InLoop => \A p \in Plans :
                    RequestsUnknown(p, tool_map) => SameToolsAsWithoutUnknown(p)
    /\ pc = "tool" => SameNextToolAsWithoutUnknown

\* C9 (as claimed): the round behaves exactly as if the unregistered names were
\* absent from the request, the decision to stop the loop included.
C9_ExactlyAsIfAbsent ==
    InLoop => \A p \in Plans :
                 RequestsUnknown(p, tool_map) =>
                     SameToolsAsWithoutUnknown(p) /\ SameStopAsWithoutUnknown(p)

\* a tool is running in a round whose request goes on with an unregistered name
C9_Witness ==
    /\ pc = "tool"
    /\ pending # <<>>
    /\ \A n \in SetOf(pending) : n \notin Keys(tool_map) /\ n \notin Keys(state.tool_results)

\* C10: when the call has left the loop, the result's summary is the sentinel if
\* the session summary is empty and the session summary otherwise, and is never
\* empty; its topic is the query; its tools_used is the session's tools_used,
\* which are exactly the tools run during the call.
C10_Finalization ==
    Exited =>
        /\ response.summary = (IF state.summary = "" THEN Sentinel ELSE state.summary)
        /\ response.summary # ""
        /\ response.topic = query
        /\ response.tools_used = state.tools_used
        /\ SetOf(response.tools_used) = {n \in RequestNames : runs[n] > 0}

\* C11: the step of research() that leaves the loop appends exactly one record
\* to the end of conversation_history, holding the query and the summary and
\* sources of the result, and leaves the earlier records in place; the steps
\* of the rounds (model calls, tool calls) leave conversation_history alone.
C11_OneRecordAppended ==
    [][/\ (pc = "loop" /\ Exited') =>
              /\ conversation_history' =
                     Append(conversation_history,
                            [query |-> query, summary |-> response'.summary,
                             sources |-> response'.sources])
              /\ response'.summary = SummaryOrSentinel(state.summary)
       /\ (InResearch /\ ~Exited' /\ <<pc, iteration, state, running>>' # <<pc, iteration, state, running>>) =>
              conversation_history' = conversation_history]_vars

\* the plans of round 2 of scenario B: a non-empty summary, a list of sources
\* and no tool requested
FinalPlans ==
    {p \in Plans : /\ p.summary \in {"X", "Y"}
                   /\ p.sources # <<Missing>> /\ IsStrList(p.sources)
                   /\ NewTools(p) = <<>>}

\* C12 (scenario B): when round 1 requests two different registered tools
\* <<t1, t2>>, t1 is run, then t2, once each, their runs returning; a plan of
\* round 2 with a non-empty summary, sources S and no tools then stops the loop,
\* no third model call is made, and the result has tools_used = <<t1, t2>>, the
\* summary of round 2 and the sources S.
C12_ScenarioB ==
    [][/\ (InLoop /\ llm_calls = 0) =>
              \A t1 \in RequestNames \cap Keys(tool_map) :
              \A t2 \in (RequestNames \cap Keys(tool_map)) \ {t1} :
              \A p \in {pl \in Plans : pl.tools_used = <<t1, t2>>} :
              \A r \in {PlanRound(state, p, tool_map)} :
                  r.running = t1 /\ r.pending = <<t2>> /\ ~r.break
       /\ (/\ pc = "tool" /\ llm_calls = 1 /\ state.tools_used = <<>>
           /\ Len(pending) = 1 /\ pending[1] # running /\ pending[1] \in Keys(tool_map)
           /\ state' # state) =>
              /\ state'.tools_used = <<running>>
              /\ pc' = "tool" /\ running' = pending[1] /\ pending' = <<>>
              /\ runs' = [n \in RequestNames |-> IF n \in {running, running'} THEN 1 ELSE 0]
       /\ (/\ pc = "tool" /\ llm_calls = 1 /\ Len(state.tools_used) = 1
           /\ pending = <<>> /\ state' # state) =>
              /\ state'.tools_used = <<state.tools_used[1], running>>
              /\ pc' = "loop" /\ ~stopped' /\ runs' = runs
       /\ (InLoop /\ llm_calls = 1 /\ Len(state.tools_used) = 2) =>
              \A p \in FinalPlans :
              \A r \in {PlanRound(state, p, tool_map)} :
                  /\ r.break /\ r.running = NoTool
                  /\ Validates(BuildResponse(r.state))
                  /\ BuildResponse(r.state) =
                         [topic |-> query, summary |-> p.summary, sources |-> p.sources,
                          tools_used |-> state.tools_used]
       /\ (/\ pc = "loop" /\ stopped /\ llm_calls = 2
           /\ state.summary \in {"X", "Y"} /\ IsStrList(state.sources)) =>
              /\ pc' = "returned" => response' = BuildResponse(state)
              /\ pc' # "raised"
              /\ llm_calls' = 2 /\ runs' = runs /\ state' = state]_vars

\* scenario B has run: search_tool and wiki_tool in round 1, a final plan in
\* round 2 of 3, and the call has returned
C12_Witness ==
    /\ pc = "returned" /\ stopped
    /\ max_iterations = 3 /\ llm_calls = 2
    /\ response.tools_used = <<"search_tool", "wiki_tool">>
    /\ response.summary = "X" /\ response.sources = <<"a">>
    /\ runs = [n \in RequestNames |-> 1]

\* s is the beginning of t
IsPrefix(s, t) == Len(s) <= Len(t) /\ SubSeq(t, 1, Len(s)) = s

\* C13: a change of the registry is not retroactive.  A step that changes
\* tool_map leaves the session state alone, the entries of tools_used and
\* tool_results stay to the end of the call whatever happens to the registry,
\* and the returned result lists them; a run is only ever started for a name
\* that is in the registry at that moment, so a removed tool is not run in a
\* later round; and a tool a caller added that has not been used is run by the
\* next round that requests it.
C13_NotRetroactive ==
    [][/\ tool_map' # tool_map => state' = state /\ response' = response
       /\ (InResearch /\ ~Exited) =>
              /\ IsPrefix(state.tools_used, state'.tools_used)
              /\ \A n \in Keys(state.tool_results) :
                     /\ n \in Keys(state'.tool_results)
                     /\ state'.tool_results[n] = state.tool_results[n]
       /\ pc' = "returned" => response'.tools_used = state'.tools_used
       /\ \A n \in RequestNames :
              runs'[n] > runs[n] => n \in Keys(tool_map) /\ running' = n
       /\ (InLoop /\ llm_calls >= 1) =>
              \A n \in (MutableNames \cap Keys(tool_map)) \ Keys(state.tool_results) :
                  tool_map[n] \in AddedCapabilities =>
                      \A s \in PlanSummaries :
                          PlanRound(state,
                                    [kind |-> "plan", summary |-> s, sources |-> <<>>,
                                     tools_used |-> <<n>>],
                                    tool_map).running = n]_vars

\* wiki_tool was run and recorded, then removed from the registry, and the
\* returned result lists it
C13_Witness ==
    /\ pc = "returned"
    /\ response.tools_used = <<"wiki_tool", "search_tool">>
    /\ "wiki_tool" \notin Keys(tool_map)

\* everything but the registry
non_registry_vars ==
    <<conversation_history, pc, query, max_iterations, iteration, stopped, state, context,
      running, pending, response, last_kind, llm_calls, runs, run_args>>

\* the entries of the registry under names other than `name` are the same
\* before and after the step
OthersKept(name) ==
    /\ Keys(tool_map') \ {name} = Keys(tool_map) \ {name}
    /\ \A n \in Keys(tool_map) \ {name} : tool_map'[n] = tool_map[n]

\* C14: remove_tool(name) can be called in every state; it takes the entry
\* out when there is one and changes nothing when there is none.  add_tool(name,
\* capability) leaves the registry with `capability` under `name`, whatever was
\* there before.  Both leave the other entries of the registry, the
\* conversation history and the state of a running research call unchanged.
C14_RegistryOps ==
    [][/\ \A name \in MutableNames :
              /\ ENABLED RemoveTool(name)
              /\ RemoveTool(name) =>
                     /\ name \notin Keys(tool_map')
                     /\ OthersKept(name)
                     /\ UNCHANGED non_registry_vars
                     /\ name \notin Keys(tool_map) => tool_map' = tool_map
       /\ \A name \in MutableNames, capability \in AddedCapabilities :
              AddTool(name, capability) =>
                  /\ name \in Keys(tool_map') /\ tool_map'[name] = capability
                  /\ OthersKept(name)
                  /\ UNCHANGED non_registry_vars
       /\ tool_map' # tool_map => UNCHANGED non_registry_vars]_vars

\* the built-in wiki_tool was overwritten by add_tool while a research call
\* that has recorded results and a draft summary is running a tool
C14_Witness ==
    /\ pc = "tool"
    /\ tool_map["search_tool"] = "search_tool"
    /\ "wiki_tool" \in Keys(tool_map) /\ tool_map["wiki_tool"] = "custom_fn"
    /\ state.tools_used # <<>> /\ state.summary = "X"

\* C15: the records a research call reads into its context are the last
\* min(3, n) of the n records stored when the call starts, oldest first; no
\* other record is read and the history is not read again during the call;
\* with an empty history (as clear_history leaves it) the context is empty.
C15_ContextIsLastThree ==
    [][/\ (pc = "idle" /\ pc' = "loop") =>
              \E n \in {Len(conversation_history)} :
              \E k \in {IF n < 3 THEN n ELSE 3} :
                  /\ Len(context') = k
                  /\ \A i \in 1..k : context'[i] = conversation_history[n - k + i]
                  /\ conversation_history = <<>> => context' = <<>>
       /\ (InResearch /\ pc' # "idle") => context' = context]_vars

\* a call started with 4 records stored: its context is records 2, 3 and 4,
\* which differ from record 1 and from each other
C15_Witness ==
    /\ pc = "loop"
    /\ Len(conversation_history) = 4
    /\ context = SubSeq(conversation_history, 2, 4)
    /\ conversation_history[1] \notin SetOf(context)
    /\ Cardinality(SetOf(context)) = 3

\* C16: when a round that ran tools ends, no other requested name is left
\* behind that is registered and has no result: every such name was run and recorded
\* before the pass is over, also when the run of another tool of the round
\* failed; every run is given the query of the call.
C16_AllRequestedRun ==
    [][/\ (pc = "tool" /\ pc' = "loop") =>
              \A n \in SetOf(pending) \ {running} :
                  ~CanInvoke(n, tool_map, state'.tool_results)
       /\ InResearch' => run_args' \subseteq {query'}]_vars

\* C17 (as amended): after a round whose model output is the object p, the
\* session's summary is the value p carries under "summary" when it carries
\* the key, whatever the value, and the session's earlier summary when it does
\* not; likewise for the sources.  The returned result has the session's
\* sources and the session's summary, the sentinel standing in for an empty one.
C17_OverwriteWhenPresent ==
    /\ InLoop => \A p \in Plans : \A r \in {PlanRound(state, p, tool_map)} :
           /\ r.state.summary = (IF p.summary = Missing THEN state.summary ELSE p.summary)
           /\ r.state.sources = (IF p.sources = <<Missing>> THEN state.sources ELSE p.sources)
    /\ pc = "returned" =>
           /\ response.summary = (IF state.summary = "" THEN Sentinel ELSE state.summary)
           /\ response.sources = state.sources

\* C17 (as claimed): after a round whose model output is the object p, the
\* session's summary and sources are those of p alone, with nothing of the
\* earlier rounds in them: they are what the same round leaves in a session
\* that has had no round before.
C17_NoMergeWithEarlierRounds ==
    InLoop => \A p \in Plans :
        \A r \in {PlanRound(state, p, tool_map)},
           f \in {PlanRound(InitialState(query), p, tool_map)} :
            /\ r.state.summary = f.state.summary
            /\ r.state.sources = f.state.sources

\* a second round is about to be made in a session whose summary and sources
\* were set by a parsed round
C17_Witness ==
    /\ InLoop /\ llm_calls >= 1
    /\ last_kind \in {"plan", "plan_no_tools"}
    /\ state.summary = "X" /\ state.sources = <<"a">>

\* the model call about to be made is the one of the last round of the call
InLastRound == InLoop /\ ~LoopHasNext(iteration + 1, max_iterations)

\* C18 (as amended): the returned summary is the sentinel exactly when the
\* session's summary is empty when the loop is left.  Whatever object p the
\* model call of the last round returns, the response built from the session
\* after that round has the sentinel exactly when p carries an empty summary,
\* or carries none and the session's summary was empty before; a non-empty
\* summary of an earlier round does not prevent it.
C18_SentinelIffEmptyAtExit ==
    /\ pc = "returned" => (response.summary = Sentinel <=> state.summary = "")
    /\ InLastRound =>
           \A p \in Plans : \A r \in {PlanRound(state, p, tool_map)} :
               BuildResponse(r.state).summary = Sentinel <=>
                   \/ p.summary = ""
                   \/ p.summary = Missing /\ state.summary = ""

\* C18 (as claimed): when an earlier parsed round of the call has left a
\* non-empty summary in the session, the result is not the sentinel: whatever
\* object p the model call of the last round of the call returns, the summary
\* of the response built from the session after that round is not the sentinel.
C18_SentinelOnlyIfNeverSummary ==
    (InLastRound /\ state.summary \in {"X", "Y"}) =>
        \A p \in Plans : \A r \in {PlanRound(state, p, tool_map)} :
            BuildResponse(r.state).summary # Sentinel

\* the last round of a call is about to be made in a session to which an
\* earlier parsed round gave the summary "X"
C18_Witness ==
    /\ InLastRound /\ llm_calls >= 1
    /\ last_kind \in {"plan", "plan_no_tools"}
    /\ state.summary = "X"

\* C19: the loop is left by its break only with at least 2 tools used and a
\* summary the model gave; a call that ends after fewer than max_iterations
\* rounds has left the loop by the break, and the result it returns has at
\* least 2 names in tools_used and that summary.  A call that runs with fewer
\* than 2 tools in the registry never executes the break and ends only after
\* exactly max_iterations rounds.
C19_EarlyExitNeedsTwoTools ==
    /\ stopped =>
           /\ Len(state.tools_used) >= 2
           /\ state.summary \in PlanSummaries \ {Missing, ""}
    /\ (Exited /\ llm_calls < max_iterations) => stopped
    /\ (pc = "returned" /\ llm_calls < max_iterations) =>
           /\ Len(response.tools_used) >= 2
           /\ response.summary = state.summary
           /\ response.summary \notin {"", Sentinel}
    /\ (InResearch /\ Cardinality(Keys(tool_map)) < 2) =>
           /\ ~stopped
           /\ Exited => llm_calls = max_iterations

\* a call with only search_tool registered has ended after all 3 rounds,
\* although the tool was used and the last plan gave a summary and no tools
C19_Witness ==
    /\ Exited /\ Keys(tool_map) = {"search_tool"}
    /\ max_iterations = 3 /\ llm_calls = 3
    /\ state.tools_used = <<"search_tool">>
    /\ state.summary = "X" /\ last_kind = "plan_no_tools"

\* C20: a round whose plan requests tools never executes the break, whatever
\* the summary and the number of tools used; when none of the requested names
\* is run (each is used already or not registered) the round leaves the tools
\* used, their results and the number of runs as they were.  A call whose last
\* round requested tools has therefore made all max_iterations rounds.
C20_NonEmptyRequestNeverStops ==
    [][/\ (llm_calls' = llm_calls + 1 /\ last_kind' = "plan") =>
              /\ ~stopped'
              /\ pc' = "loop" =>
                     /\ state'.tools_used = state.tools_used
                     /\ state'.tool_results = state.tool_results
                     /\ runs' = runs
       /\ (pc = "loop" /\ Exited' /\ last_kind = "plan") =>
              ~stopped /\ llm_calls = max_iterations]_vars

\* a call has ended after all 3 rounds with 2 tools used, each run once, and
\* a summary, its last round having requested tools again
C20_Witness ==
    /\ Exited /\ ~stopped /\ last_kind = "plan"
    /\ max_iterations = 3 /\ llm_calls = 3
    /\ Len(state.tools_used) = 2 /\ state.summary = "X"
    /\ runs = [n \in RequestNames |-> 1]
    /\ Keys(tool_map) = BuiltinTools
=============================================================================
